---- MODULE Spec2Model ----
(***************************************************************************)
(* Model of the Prom.ua crawler: the product-page extraction pipeline of   *)
(* ProductCrawler (page guard, JSON-LD extraction, DOM price cascades,     *)
(* price reconciliation, record assembly), and the two drivers of main.py  *)
(* that consume it (paginate_search_results, process_product_queue).       *)
(*                                                                         *)
(* A page is modelled by what the regular expressions and json.loads of    *)
(* the code can see in it: which ld+json blocks it holds, which price      *)
(* pattern matches which text, which DOM fields are found.  Prices are     *)
(* whole numbers of kopecks; the 1% threshold  a > b * 1.01  is computed as*)
(* 100 * a > 101 * b, which agrees with the float comparison on every      *)
(* price used here.                                                        *)
(***************************************************************************)
EXTENDS Integers, Sequences, FiniteSets, TLC

\* ------------------------------------------------------------------------
\* Optional values (Python's None / a value)
\* ------------------------------------------------------------------------
None == << >>
Some(x) == << x >>
IsNone(o) == o = << >>
IsSome(o) == o # << >>
Val(o) == o[1]

Min2(a, b) == IF a <= b THEN a ELSE b

\* ------------------------------------------------------------------------
\* Product (src/models/product.py)
\* ------------------------------------------------------------------------

\* str.upper() on the currency codes that occur in the model
Upper(s) == IF s \in { "uah", "Uah" } THEN "UAH" ELSE IF s = "usd" THEN "USD" ELSE s

\* the currency left as the caller gave it
validate_currency_unchanged(c) == c

\* validate_price: a present price below zero raises ValueError
validate_price_raises(p) == IsSome(p) /\ Val(p) < 0

\* validate_currency: uppercase when present
validate_currency(c) == IF IsSome(c) THEN Some(Upper(Val(c))) ELSE c

\* Outcome of a call that returns Optional[Product] or raises.
Returned(v) == [raised |-> FALSE, value |-> v]
Raised == [raised |-> TRUE, value |-> None]

\* Product(**f): the constructor with its field validators.  f holds the
\* keyword arguments given; price_uah and position default to None.
\* Returns the record, or raises (pydantic.ValidationError) when a
\* validator raises.
Product(f) ==
    IF \/ validate_price_raises(f.regular_price_uah)
       \/ validate_price_raises(f.discounted_price_uah)
       \/ validate_price_raises(f.price_uah)
    THEN Raised
    ELSE Returned(Some([f EXCEPT !.currency = validate_currency(f.currency)]))

\* ------------------------------------------------------------------------
\* Page guard (ProductCrawler.is_non_product_page)
\* ------------------------------------------------------------------------

\* html.lower() restricted to the order-tracking phrase: the phrase is
\* absent, present in lower case, or present with upper-case letters.
Lower(t) == IF t = "upper" THEN "lower" ELSE t

\* is_non_product_page comparing the phrase without html.lower()
is_non_product_page_case_sensitive(html_, url_) ==
    IF html_.tracking = "lower" THEN TRUE
    ELSE IF url_.shipments THEN TRUE
    ELSE FALSE

\* '<h1' in html and ('data-qaid="product_price"' in html or 'itemprop="price"' in html)
has_h1_and_price(html_) ==
    /\ html_.h1 # << >>
    /\ \E p \in { "qa_attr", "qa_span", "qa_nested", "microdata" } : html_.cur[p].m # "no"

is_non_product_page(html_, url_) ==
    IF Lower(html_.tracking) = "lower" THEN TRUE
    ELSE IF url_.shipments THEN TRUE
    ELSE IF url_.ua_p_digits THEN FALSE
    ELSE IF has_h1_and_price(html_) THEN FALSE
    ELSE FALSE

\* ------------------------------------------------------------------------
\* Structured data (ProductCrawler.extract_jsonld_data)
\* ------------------------------------------------------------------------

\* A script block is text that json.loads rejects ("bad_json"), a single
\* object ("object", one item) or an array ("array", items in order).  An
\* item is a dict with an "@type".
IsProductItem(item) == item.is_dict /\ item.type = "Product"

\* first Product item of one parsed block, or None
FirstProductInBlock(block) ==
    IF block.kind = "bad_json" THEN None
    ELSE IF \E i \in 1..Len(block.items) : IsProductItem(block.items[i])
         THEN LET i == CHOOSE k \in 1..Len(block.items) :
                         /\ IsProductItem(block.items[k])
                         /\ \A j \in 1..(k-1) : ~IsProductItem(block.items[j])
              IN Some(block.items[i])
         ELSE None

\* the scan giving up at the first block that json.loads rejects
extract_jsonld_data_abort_on_error(html_) ==
    LET scripts == html_.scripts
        ok == { k \in 1..Len(scripts) : \A j \in 1..k : scripts[j].kind # "bad_json" }
    IN IF \E b \in ok : IsSome(FirstProductInBlock(scripts[b]))
       THEN LET b == CHOOSE k \in ok :
                       /\ IsSome(FirstProductInBlock(scripts[k]))
                       /\ \A j \in 1..(k-1) : IsNone(FirstProductInBlock(scripts[j]))
            IN FirstProductInBlock(scripts[b])
       ELSE None

extract_jsonld_data(html_) ==
    LET scripts == html_.scripts IN
    IF \E b \in 1..Len(scripts) : IsSome(FirstProductInBlock(scripts[b]))
    THEN LET b == CHOOSE k \in 1..Len(scripts) :
                    /\ IsSome(FirstProductInBlock(scripts[k]))
                    /\ \A j \in 1..(k-1) : IsNone(FirstProductInBlock(scripts[j]))
         IN FirstProductInBlock(scripts[b])
    ELSE None

\* ------------------------------------------------------------------------
\* DOM price cascades
\* ------------------------------------------------------------------------

\* What re.search + float() give for one pattern: no match, a match whose
\* text float() rejects, or a match that converts to v.
NoMatch == [m |-> "no", v |-> 0]
BadMatch == [m |-> "bad", v |-> 0]
Match(x) == [m |-> "ok", v |-> x]

\* the pattern lists, in list order
current_price_patterns ==
    << "qa_attr", "qa_span", "qa_nested", "cls_span", "microdata" >>
regular_price_patterns ==
    << "old_attr", "old_span", "pold_span", "cls_old", "crossed" >>
html_current_price_patterns ==
    << "qa_span", "qa_nested", "cls_span", "cls_nested", "microdata", "div_price" >>
html_regular_price_patterns ==
    << "old_span", "pold_span", "cls_old", "crossed", "line_through" >>

AllCurrentPatterns ==
    { "qa_attr", "qa_span", "qa_nested", "cls_span", "cls_nested",
      "microdata", "div_price" }
AllRegularPatterns ==
    { "old_attr", "old_span", "pold_span", "cls_old", "crossed", "line_through" }

\* the cascade stopping at the first pattern that matches, converted or not
FirstMatched(patterns, table) ==
    IF \E i \in 1..Len(patterns) : table[patterns[i]].m # "no"
    THEN LET i == CHOOSE k \in 1..Len(patterns) :
                    /\ table[patterns[k]].m # "no"
                    /\ \A j \in 1..(k-1) : table[patterns[j]].m = "no"
         IN IF table[patterns[i]].m = "ok" THEN Some(table[patterns[i]].v) ELSE None
    ELSE None

\* for pattern in patterns: if it matches and float() succeeds: take it, break
FirstConverted(patterns, table) ==
    IF \E i \in 1..Len(patterns) : table[patterns[i]].m = "ok"
    THEN LET i == CHOOSE k \in 1..Len(patterns) :
                    /\ table[patterns[k]].m = "ok"
                    /\ \A j \in 1..(k-1) : table[patterns[j]].m # "ok"
         IN Some(table[patterns[i]].v)
    ELSE None

\* some pattern of the list matched (converted or not)
AnyMatched(patterns, table) ==
    \E i \in 1..Len(patterns) : table[patterns[i]].m # "no"

\* a > b * 1.01
MoreThanOnePercentAbove(a, b) == 100 * a > 101 * b

\* extract_prices_from_html without line 190 (regular_price = current_price)
extract_prices_from_html_keep_regular(html_) ==
    LET cur == FirstConverted(current_price_patterns, html_.cur)
        reg == FirstConverted(regular_price_patterns, html_.old)
    IN [current_price |-> cur,
        regular_price |-> reg,
        discounted_price |->
            IF IsSome(reg) /\ IsSome(cur) /\ Val(reg) > Val(cur) THEN cur ELSE None]

\* ProductCrawler.extract_prices_from_html: the returned dictionary.  When
\* both cascades give a value and regular <= current, regular_price is
\* overwritten by current_price.
extract_prices_from_html(html_) ==
    LET cur == FirstConverted(current_price_patterns, html_.cur)
        reg == FirstConverted(regular_price_patterns, html_.old)
        both == IsSome(reg) /\ IsSome(cur)
    IN [current_price |-> cur,
        regular_price |->
            IF both /\ ~(Val(reg) > Val(cur)) THEN cur ELSE reg,
        discounted_price |->
            IF both /\ Val(reg) > Val(cur) THEN cur ELSE None]

\* ------------------------------------------------------------------------
\* URLs as token sequences: << "https://prom.ua", "/", "companies/x" >>
\* ------------------------------------------------------------------------
Origin == "https://prom.ua"

\* seller_url.startswith('http')
StartsWithHttp(u) == Len(u) > 0 /\ u[1] \in { "https://prom.ua", "http://shop.example", "httpdocs" }

\* seller_url.startswith('/')
StartsWithSlash(u) == Len(u) > 0 /\ u[1] = "/"

\* f"https://prom.ua{seller_url}"  or  f"https://prom.ua/{seller_url}"
resolve_seller_url(u) ==
    IF StartsWithHttp(u) THEN u
    ELSE IF StartsWithSlash(u) THEN << Origin >> \o u
    ELSE << Origin, "/" >> \o u

\* ------------------------------------------------------------------------
\* ProductCrawler.extract_product_data, the JSON-LD branch
\* ------------------------------------------------------------------------

\* The offer the price and the currency are read from: the offers dict
\* itself (a missing "offers" key defaults to {}), or the first element of
\* a non-empty list when that element is a dict.
EmptyOffer == [is_dict |-> TRUE, price |-> [kind |-> "absent", v |-> 0], priceCurrency |-> None, seller |-> [kind |-> "missing", name |-> None, url |-> None, url_is_str |-> TRUE], availability |-> [kind |-> "missing", text |-> ""], highPrice |-> None, lowPrice |-> None]

price_offer(offers) ==
    IF offers.kind = "missing" THEN Some(EmptyOffer)
    ELSE IF offers.kind = "dict" THEN Some(offers.items[1])
    ELSE IF offers.kind = "list" /\ Len(offers.items) > 0 /\ offers.items[1].is_dict
         THEN Some(offers.items[1])
    ELSE None

\* A price text is a sequence of characters: digits, ".", ",", " ", "-",
\* and "x" for any character float() does not accept.
Digits == { "0", "1", "2", "3", "4", "5", "6", "7", "8", "9" }

DigitValue(c) ==
    CASE c = "0" -> 0 [] c = "1" -> 1 [] c = "2" -> 2 [] c = "3" -> 3 [] c = "4" -> 4
      [] c = "5" -> 5 [] c = "6" -> 6 [] c = "7" -> 7 [] c = "8" -> 8 [] c = "9" -> 9

\* the number a string of digits denotes
RECURSIVE DigitsValue(_)
DigitsValue(ds) ==
    IF ds = << >> THEN 0
    ELSE 10 * DigitsValue(SubSeq(ds, 1, Len(ds) - 1)) + DigitValue(ds[Len(ds)])

IsNotSpace(c) == c # " "

\* jsonld_price.replace(',', '.').replace(' ', '')
normalize_price_string(chars) ==
    SelectSeq([i \in 1..Len(chars) |-> IF chars[i] = "," THEN "." ELSE chars[i]], IsNotSpace)

\* float(text) for a text over the characters above: an optional "-",
\* then digits with at most one "." and at least one digit; None stands
\* for ValueError.  The value is counted in kopecks; digits after the
\* second decimal place are dropped.
float_of_string(chars) ==
    LET body == IF chars # << >> /\ chars[1] = "-" THEN Tail(chars) ELSE chars
        sign == IF chars # << >> /\ chars[1] = "-" THEN -1 ELSE 1
        dots == { i \in 1..Len(body) : body[i] = "." }
        dot == IF dots = { } THEN Len(body) + 1 ELSE CHOOSE i \in dots : TRUE
        whole == SubSeq(body, 1, dot - 1)
        frac == SubSeq(body, dot + 1, Len(body))
        cents == SubSeq(frac \o << "0", "0" >>, 1, 2)
    IN IF /\ Cardinality(dots) <= 1
          /\ Len(whole) + Len(frac) > 0
          /\ \A i \in 1..Len(whole) : whole[i] \in Digits
          /\ \A i \in 1..Len(frac) : frac[i] \in Digits
       THEN Some(sign * (100 * DigitsValue(whole) + DigitsValue(cents)))
       ELSE None

\* the conversion applying float() to the string as it stands
convert_jsonld_price_unnormalized(raw) ==
    IF raw.kind = "absent" THEN None
    ELSE IF raw.kind = "num" THEN Some(raw.v)
    ELSE IF raw.kind = "str" THEN float_of_string(raw.chars)
    ELSE None

\* float(jsonld_price) with its try/except: a number converts, a string is
\* normalised and then converted (ValueError gives None), a value of any
\* other JSON type gives None (TypeError).
convert_jsonld_price(raw) ==
    IF raw.kind = "absent" THEN None
    ELSE IF raw.kind = "num" THEN Some(raw.v)
    ELSE IF raw.kind = "str" THEN float_of_string(normalize_price_string(raw.chars))
    ELSE None

\* the price decision with the 1% margin dropped from the JSON-LD comparison
reconcile_prices_no_margin(jsonld_price, html_prices_) ==
    IF IsSome(jsonld_price)
    THEN [regular |-> jsonld_price,
          discounted |->
              IF /\ IsSome(html_prices_.current_price)
                 /\ Val(jsonld_price) > Val(html_prices_.current_price)
              THEN html_prices_.current_price ELSE None]
    ELSE [regular |-> html_prices_.regular_price, discounted |-> None]

\* the price decision with the HTML discount looked at first
reconcile_prices_html_discount_first(jsonld_price, html_prices_) ==
    IF /\ IsSome(html_prices_.regular_price)
       /\ IsSome(html_prices_.current_price)
       /\ MoreThanOnePercentAbove(Val(html_prices_.regular_price), Val(html_prices_.current_price))
    THEN [regular |-> html_prices_.regular_price, discounted |-> html_prices_.current_price]
    ELSE IF IsSome(jsonld_price)
    THEN [regular |-> jsonld_price,
          discounted |->
              IF /\ IsSome(html_prices_.current_price)
                 /\ MoreThanOnePercentAbove(Val(jsonld_price), Val(html_prices_.current_price))
              THEN html_prices_.current_price ELSE None]
    ELSE [regular |-> html_prices_.regular_price, discounted |-> None]

\* the price decision of extract_product_data
reconcile_prices(jsonld_price, html_prices_) ==
    LET html_regular_price == html_prices_.regular_price
        html_current_price == html_prices_.current_price
        html_has_discount ==
            /\ IsSome(html_regular_price)
            /\ IsSome(html_current_price)
            /\ MoreThanOnePercentAbove(Val(html_regular_price), Val(html_current_price))
    IN IF IsSome(jsonld_price)
       THEN [regular |-> jsonld_price,
             discounted |->
                 IF /\ IsSome(html_current_price)
                    /\ MoreThanOnePercentAbove(Val(jsonld_price), Val(html_current_price))
                 THEN html_current_price ELSE None]
       ELSE IF html_has_discount
       THEN [regular |-> html_regular_price, discounted |-> html_current_price]
       ELSE IF IsSome(html_regular_price)
       THEN [regular |-> html_regular_price, discounted |-> None]
       ELSE [regular |-> None, discounted |-> None]

\* image: a string, the first element of a list when it is a string, or
\* the "url" of a dict
jsonld_image(image) ==
    IF image.kind \in { "str", "list_str", "dict_url" } THEN Some(image.v) ELSE None

\* seller and availability are read only when offers is a dict
jsonld_seller(offers) ==
    IF offers.kind = "dict" /\ offers.items[1].seller.kind = "dict"
    THEN LET seller == offers.items[1].seller
         IN [name |-> seller.name,
             url |-> IF IsSome(seller.url) /\ Val(seller.url) # << >>
                     THEN Some(resolve_seller_url(Val(seller.url)))
                     ELSE seller.url]
    ELSE [name |-> None, url |-> None]

\* seller.get("url") is a JSON number: seller_url.startswith raises
\* AttributeError for a non-zero number, and Product(seller_url=0) fails
\* the str validation for zero
jsonld_seller_raises(offers) ==
    /\ offers.kind = "dict"
    /\ offers.items[1].seller.kind = "dict"
    /\ ~offers.items[1].seller.url_is_str

\* "InStock" in availability raises TypeError when availability is a JSON
\* number or null
jsonld_in_stock_raises(offers) ==
    /\ offers.kind = "dict"
    /\ offers.items[1].availability.kind \in { "num", "null" }

\* "InStock" in availability
jsonld_in_stock(offers) ==
    IF offers.kind = "dict" /\ offers.items[1].availability.kind = "str"
    THEN Some(offers.items[1].availability.text = "https://schema.org/InStock")
    ELSE None

merge_jsonld(jsonld_data_, html_prices_, url_) ==
    LET offers == jsonld_data_.offers
        offer == price_offer(offers)
        jsonld_price == IF IsSome(offer) THEN convert_jsonld_price(Val(offer).price) ELSE None
        currency == IF IsSome(offer) THEN Val(offer).priceCurrency ELSE None
        prices == reconcile_prices(jsonld_price, html_prices_)
        seller == jsonld_seller(offers)
    IN IF jsonld_seller_raises(offers) \/ jsonld_in_stock_raises(offers) THEN Raised
       ELSE
       Product([url |-> url_.id,
                title |-> jsonld_data_.name,
                regular_price_uah |-> prices.regular,
                discounted_price_uah |-> prices.discounted,
                price_uah |-> None,
                currency |-> IF IsNone(currency) \/ Val(currency) = "" THEN Some("UAH") ELSE currency,
                image_url |-> jsonld_image(jsonld_data_.image),
                seller_name |-> seller.name,
                seller_url |-> seller.url,
                in_stock |-> jsonld_in_stock(offers),
                position |-> None])

\* ------------------------------------------------------------------------
\* ProductCrawler.extract_data_from_html (the pure-HTML path)
\* ------------------------------------------------------------------------

\* Python truthiness of an optional string / an optional number
Truthy(o) == IsSome(o) /\ Val(o) # ""
TruthyNumber(o) == IsSome(o) /\ Val(o) # 0

\* f"debug_product_{product_id}.html", written when a price pattern matched
debug_file(url_) == [kind |-> "debug_product", id |-> url_.id, page |-> 0]

writes_debug_file(html_) ==
    \/ AnyMatched(html_current_price_patterns, html_.cur)
    \/ AnyMatched(html_regular_price_patterns, html_.old)

\* "В наявності" in text or "Готово до відправки" in text
presence_in_stock(text) == text \in { "in_stock_phrase", "ready_phrase" }

\* the price decision of extract_data_from_html with >= for >
html_reconcile_prices_ge(reg, cur) ==
    IF IsSome(reg) /\ IsSome(cur)
    THEN IF Val(reg) >= Val(cur)
         THEN [regular |-> reg, current |-> cur, discounted |-> cur]
         ELSE [regular |-> cur, current |-> cur, discounted |-> None]
    ELSE IF IsSome(cur)
    THEN [regular |-> cur, current |-> cur, discounted |-> None]
    ELSE [regular |-> reg, current |-> reg, discounted |-> None]

\* the price decision of extract_data_from_html (no 1% threshold here)
html_reconcile_prices(reg, cur) ==
    IF IsSome(reg) /\ IsSome(cur)
    THEN IF Val(reg) > Val(cur)
         THEN [regular |-> reg, current |-> cur, discounted |-> cur]
         ELSE [regular |-> cur, current |-> cur, discounted |-> None]
    ELSE IF IsNone(reg) /\ IsSome(cur)
    THEN [regular |-> cur, current |-> cur, discounted |-> None]
    ELSE IF IsSome(reg) /\ IsNone(cur)
    THEN [regular |-> reg, current |-> reg, discounted |-> None]
    ELSE [regular |-> None, current |-> None, discounted |-> None]

extract_data_from_html(html_, url_) ==
    LET title == html_.h1
        cur == FirstConverted(html_current_price_patterns, html_.cur)
        reg == FirstConverted(html_regular_price_patterns, html_.old)
        prices == html_reconcile_prices(reg, cur)
        seller_name == html_.dom_seller_name
        seller_url == IF Truthy(seller_name) /\ IsSome(html_.dom_seller_href)
                      THEN Some(resolve_seller_url(Val(html_.dom_seller_href)))
                      ELSE None
        in_stock == IF IsSome(html_.dom_presence)
                    THEN Some(presence_in_stock(Val(html_.dom_presence)))
                    ELSE Some(FALSE)
    IN IF ~Truthy(title) /\ ~TruthyNumber(prices.current)
       THEN Returned(None)
       ELSE LET product == Product([url |-> url_.id,
                                    title |-> title,
                                    regular_price_uah |-> prices.regular,
                                    discounted_price_uah |-> prices.discounted,
                                    price_uah |-> None,
                                    currency |-> Some("UAH"),
                                    image_url |-> html_.dom_image,
                                    seller_name |-> seller_name,
                                    seller_url |-> seller_url,
                                    in_stock |-> in_stock,
                                    position |-> None])
            IN IF product.raised THEN Returned(None) ELSE product

\* ------------------------------------------------------------------------
\* ProductCrawler.extract_product_data and process_product_page
\* ------------------------------------------------------------------------
extract_product_data(html_, url_) ==
    IF is_non_product_page(html_, url_) THEN Returned(None)
    ELSE LET jsonld_data_ == extract_jsonld_data(html_)
             html_prices_ == extract_prices_from_html(html_)
         IN IF IsNone(jsonld_data_)
            THEN extract_data_from_html(html_, url_)
            ELSE merge_jsonld(Val(jsonld_data_), html_prices_, url_)

\* fetch_html raising, or extract_product_data raising, is caught: None
process_product_page(fetch_ok, html_, url_) ==
    IF ~fetch_ok THEN None
    ELSE LET outcome == extract_product_data(html_, url_)
         IN IF outcome.raised THEN None ELSE outcome.value

\* ------------------------------------------------------------------------
\* Input pages
\* ------------------------------------------------------------------------
Prices == { 0, 100, 101, 102 }

MatchResults == { BadMatch } \cup { Match(v) : v \in Prices }

NoCurrentMatch == [p \in AllCurrentPatterns |-> NoMatch]
NoRegularMatch == [p \in AllRegularPatterns |-> NoMatch]

\* match tables in which at most one pattern of the field matches
CurrentTables ==
    { NoCurrentMatch } \cup
    { [NoCurrentMatch EXCEPT ![q] = r] : q \in AllCurrentPatterns, r \in MatchResults }
RegularTables ==
    { NoRegularMatch } \cup
    { [NoRegularMatch EXCEPT ![q] = r] : q \in AllRegularPatterns, r \in MatchResults }

\* the "price" value of a JSON-LD offer: missing, a number, a string, a
\* list
AbsentPrice == [kind |-> "absent", v |-> 0]
StringPrice(chars) == [kind |-> "str", chars |-> chars]
ListPrice == [kind |-> "list", v |-> 0]

\* price strings: "1", "1.01", "1,02", "1 299,50", "1,299.50", "x", "",
\* "1x2", "-1", "1."
PriceStrings ==
    { << "1" >>, << "1", ".", "0", "1" >>, << "1", ",", "0", "2" >>,
      << "1", " ", "2", "9", "9", ",", "5", "0" >>,
      << "1", ",", "2", "9", "9", ".", "5", "0" >>,
      << "x" >>, << >>, << "1", "x", "2" >>, << "-", "1" >>, << "1", "." >> }

RawPrices ==
    { AbsentPrice, ListPrice, [kind |-> "num", v |-> -100], [kind |-> "num", v |-> 0] }
    \cup { StringPrice(t) : t \in PriceStrings }

NoSeller == [kind |-> "missing", name |-> None, url |-> None, url_is_str |-> TRUE]
NoAvailability == [kind |-> "missing", text |-> ""]
NoImage == [kind |-> "missing", v |-> ""]

\* an offer object; highPrice and lowPrice are keys the code never reads
RangeOffer(price, currency, seller, availability, high, low) == [is_dict |-> TRUE, price |-> price, priceCurrency |-> currency, seller |-> seller, availability |-> availability, highPrice |-> high, lowPrice |-> low]

Offer(price, currency, seller, availability) == RangeOffer(price, currency, seller, availability, None, None)

OffersDict(offer) == [kind |-> "dict", items |-> << offer >>]
OffersList(offers) == [kind |-> "list", items |-> offers]
OffersMissing == [kind |-> "missing", items |-> << >>]

ProductItem(name, offers, image) == [is_dict |-> TRUE, type |-> "Product", name |-> name, offers |-> offers, image |-> image]

ObjectBlock(item) == [kind |-> "object", items |-> << item >>]

Page(tracking, scripts, cur, old, h1, image, seller_name, seller_href, presence) == [tracking |-> tracking, scripts |-> scripts, cur |-> cur, old |-> old, h1 |-> h1, dom_image |-> image, dom_seller_name |-> seller_name, dom_seller_href |-> seller_href, dom_presence |-> presence]

PlainUrl == [id |-> "u1", shipments |-> FALSE, ua_p_digits |-> TRUE]

\* Pages that vary the price signals: the JSON-LD price (offers as a dict
\* or as a list whose second offer differs), and the two DOM match tables.
TitledOffer(p) == Offer(p, Some("UAH"), NoSeller, NoAvailability)

TitledPriceScripts ==
    { << ObjectBlock(ProductItem(Some("T"), OffersDict(TitledOffer(p)), NoImage)) >> : p \in RawPrices } \cup
    { << ObjectBlock(ProductItem(Some("T"), OffersList(<< TitledOffer(p), TitledOffer([kind |-> "num", v |-> 100]) >>), NoImage)) >> : p \in RawPrices }

UntitledPriceScripts ==
    { << >> } \cup
    { << ObjectBlock(ProductItem(None, OffersDict(Offer(p, None, NoSeller, NoAvailability)), NoImage)) >> : p \in { AbsentPrice, StringPrice(<< "x" >>) } }

TitledPricePages ==
    { Page("absent", s, c, o, Some("H"), None, None, None, None) : s \in TitledPriceScripts, c \in CurrentTables, o \in RegularTables }

UntitledPricePages ==
    { Page("absent", s, c, o, h, None, None, None, None) : s \in UntitledPriceScripts, c \in CurrentTables, o \in RegularTables, h \in { None, Some("H") } }

\* The price scenarios spelled out in the specification:
\* structured 500 UAH with DOM current 400 or 498; DOM old/current 1000/800
\* and 800/1000, with and without a JSON-LD block.
ExamplePages ==
    { Page("absent", << ObjectBlock(ProductItem(Some("T"), OffersDict(TitledOffer(StringPrice(<< "5", "0", "0" >>))), NoImage)) >>, [NoCurrentMatch EXCEPT !["qa_span"] = Match(c)], NoRegularMatch, Some("H"), None, None, None, None) : c \in { 40000, 49800 } } \cup
    { Page("absent", s, [NoCurrentMatch EXCEPT !["qa_span"] = Match(c)], [NoRegularMatch EXCEPT !["old_span"] = Match(180000 - c)], Some("H"), None, None, None, None) : c \in { 80000, 100000 }, s \in { << >>, << ObjectBlock(ProductItem(Some("T"), OffersMissing, NoImage)) >> } }

\* Pages that vary the other fields, in the structured data and in the DOM.
Sellers == { NoSeller, [kind |-> "dict", name |-> Some("S"), url |-> Some(<< "/", "c/s" >>), url_is_str |-> TRUE] }
Availabilities == { NoAvailability, [kind |-> "str", text |-> "https://schema.org/InStock"], [kind |-> "str", text |-> "https://schema.org/OutOfStock"] }
Images == { NoImage, [kind |-> "str", v |-> "img_ld"], [kind |-> "list_other", v |-> ""] }
Currencies == { None, Some("uah"), Some("Uah"), Some("UAH") }

FieldScripts ==
    { << >> } \cup
    { << ObjectBlock(ProductItem(n, OffersMissing, i)) >> : n \in { None, Some("T") }, i \in Images } \cup
    { << ObjectBlock(ProductItem(n, OffersDict(Offer([kind |-> "num", v |-> 100], c, sl, a)), i)) >> : n \in { None, Some("T") }, i \in Images, sl \in Sellers, a \in Availabilities, c \in Currencies } \cup
    { << ObjectBlock(ProductItem(Some("T"), OffersList(<< Offer([kind |-> "num", v |-> 100], c, sl, a) >>), NoImage)) >> : sl \in Sellers, a \in Availabilities, c \in Currencies }

DomSellers ==
    { [name |-> None, href |-> None], [name |-> Some("D"), href |-> None],
      [name |-> Some("D"), href |-> Some(<< "/", "c/d" >>)],
      [name |-> Some("D"), href |-> Some(<< "c/d" >>)],
      [name |-> Some("D"), href |-> Some(<< "https://prom.ua", "/", "c/d" >>)] }

FieldPages ==
    { Page("absent", s, NoCurrentMatch, NoRegularMatch, h, i, d.name, d.href, a) : s \in FieldScripts, h \in { None, Some("H") }, i \in { None, Some("img_dom") }, d \in DomSellers, a \in { None, Some("in_stock_phrase"), Some("other") } }

\* Pages with up to three ld+json blocks: text json.loads rejects, a
\* single object (a Product or not), an array (empty, or holding Products
\* after other elements), a JSON scalar.
OtherItem == [is_dict |-> TRUE, type |-> "Organization", name |-> Some("O"), offers |-> OffersMissing, image |-> NoImage]
NonDictItem == [is_dict |-> FALSE, type |-> "", name |-> None, offers |-> OffersMissing, image |-> NoImage]
ProductA == ProductItem(Some("A"), OffersMissing, NoImage)
ProductB == ProductItem(Some("B"), OffersMissing, NoImage)

BadJsonBlock == [kind |-> "bad_json", items |-> << >>]
ScalarBlock == [kind |-> "scalar", items |-> << >>]
ArrayBlock(items) == [kind |-> "array", items |-> items]

Blocks ==
    { BadJsonBlock, ScalarBlock, ObjectBlock(OtherItem), ObjectBlock(ProductA),
      ArrayBlock(<< >>), ArrayBlock(<< OtherItem, NonDictItem >>),
      ArrayBlock(<< NonDictItem, ProductB, ProductA >>) }

BlockLists ==
    { << >> } \cup { << a >> : a \in Blocks } \cup { << a, b >> : a \in Blocks, b \in Blocks }
    \cup { << a, b, c >> : a \in Blocks, b \in Blocks, c \in Blocks }

StructuredPages ==
    { Page("absent", s, NoCurrentMatch, NoRegularMatch, Some("H"), None, None, None, None) : s \in BlockLists }

\* Pages on which several patterns of a field match: the first three
\* current-price patterns and two old-price patterns each match a price,
\* match a text float() rejects, or do not match.
CascadeCurrentTables ==
    { [NoCurrentMatch EXCEPT !["qa_attr"] = a, !["qa_span"] = b, !["microdata"] = c] : a \in { NoMatch, BadMatch, Match(100) }, b \in { NoMatch, BadMatch, Match(100), Match(101) }, c \in { NoMatch, BadMatch, Match(102) } }

CascadeRegularTables ==
    { [NoRegularMatch EXCEPT !["old_span"] = a, !["crossed"] = b] : a \in { NoMatch, BadMatch, Match(101), Match(102) }, b \in { NoMatch, BadMatch, Match(101), Match(103) } }

CascadePages ==
    { Page("absent", s, c, o, Some("H"), None, None, None, None) : s \in { << >>, << ObjectBlock(ProductItem(Some("T"), OffersMissing, NoImage)) >> }, c \in CascadeCurrentTables, o \in CascadeRegularTables }

\* Pages whose offer carries highPrice / lowPrice next to, or instead of,
\* the plain price.
RangeScripts ==
    { << ObjectBlock(ProductItem(Some("T"), OffersDict(RangeOffer(p, Some("UAH"), NoSeller, NoAvailability, hi, lo)), NoImage)) >> : p \in { AbsentPrice, [kind |-> "num", v |-> 100] }, hi \in { None, Some(102) }, lo \in { None, Some(101) } }

RangePages ==
    { Page("absent", s, c, NoRegularMatch, Some("H"), None, None, None, None) : s \in RangeScripts, c \in { NoCurrentMatch, [NoCurrentMatch EXCEPT !["qa_span"] = Match(100)] } }

\* Pages whose JSON-LD block has one field of an unexpected JSON type: a
\* seller url or an availability that is a number.
BadUrlSeller == [kind |-> "dict", name |-> Some("S"), url |-> Some(<< "5" >>), url_is_str |-> FALSE]
NumberAvailability == [kind |-> "num", text |-> ""]

MalformedScripts ==
    { << ObjectBlock(ProductItem(Some("T"), o, NoImage)) >> : o \in { OffersDict(Offer([kind |-> "num", v |-> 100], Some("UAH"), sl, a)) : sl \in { NoSeller, BadUrlSeller }, a \in { NoAvailability, NumberAvailability } } \cup { OffersList(<< Offer([kind |-> "num", v |-> 100], Some("UAH"), BadUrlSeller, NumberAvailability) >>) } }

MalformedPages ==
    { Page("absent", s, NoCurrentMatch, NoRegularMatch, h, None, None, None, None) : s \in MalformedScripts, h \in { None, Some("H") } }

\* Seller links as a page can carry them: empty, a relative path whose first
\* letters are "http", a path with and without the leading slash, and a
\* link with scheme and host.
SellerLinks == { << >>, << "httpdocs", "/", "c/s" >>, << "/", "c/s" >>, << "c/s" >>, << "http://shop.example", "/", "c/s" >> }

SellerLinkScripts ==
    { << ObjectBlock(ProductItem(Some("T"), OffersDict(Offer([kind |-> "num", v |-> 100], Some("UAH"), [kind |-> "dict", name |-> Some("S"), url |-> Some(l), url_is_str |-> TRUE], NoAvailability)), NoImage)) >> : l \in SellerLinks }

\* href="([^"]+)" never matches an empty attribute
SellerLinkPages ==
    { Page("absent", s, NoCurrentMatch, NoRegularMatch, Some("H"), None, None, None, None) : s \in SellerLinkScripts } \cup
    { Page("absent", << >>, NoCurrentMatch, NoRegularMatch, Some("H"), None, Some("D"), Some(l), None) : l \in SellerLinks \ { << >> } }

\* Pages and URLs that vary what the page guard looks at.
GuardContents ==
    { << s, c, h >> : s \in { << >>, << ObjectBlock(ProductItem(Some("T"), OffersDict(Offer([kind |-> "num", v |-> 100], Some("UAH"), NoSeller, NoAvailability)), NoImage)) >> }, c \in { NoCurrentMatch, [NoCurrentMatch EXCEPT !["qa_span"] = Match(100)] }, h \in { None, Some("H") } }

GuardPages ==
    { Page(t, g[1], g[2], NoRegularMatch, g[3], None, None, None, None) : t \in { "absent", "lower", "upper" }, g \in GuardContents }

GuardUrls == { [id |-> "u1", shipments |-> sh, ua_p_digits |-> d] : sh \in BOOLEAN, d \in BOOLEAN }

\* ------------------------------------------------------------------------
\* State
\* ------------------------------------------------------------------------
VARIABLES
    html,         \* the page markup given to extract_product_data
    url,          \* the page URL given to extract_product_data
    pc,           \* position in extract_product_data
    jsonld_data,  \* result of extract_jsonld_data
    html_prices,  \* result of extract_prices_from_html
    outcome,      \* what extract_product_data returned, or that it raised
    cascade,      \* current_price and regular_price as the pattern loops left them
    steps,        \* the extraction calls made so far, in order
    files,        \* debug files written so far
    \* paginate_search_results
    pg_pc,              \* position in paginate_search_results
    max_items,          \* its max_items argument
    current_page,
    all_products,
    page_product_urls,
    page_prices,        \* the prices of the listing that the loop will read
    products_to_process,
    pg_i,               \* the loop variable i, 1-based
    basic_product,
    detailed_product,
    dataset,            \* the records given to Actor.push_data, in order
    fetches,            \* the search pages fetched, in order: page number, links found
    pg_result,          \* the returned list, once returned
    \* process_product_queue
    q_pc,               \* position in process_product_queue
    queue,              \* the pending requests of the request queue
    handled,            \* the requests marked as handled
    enqueued_count,
    products,
    processed_count,
    failed_count,
    request,
    product,
    q_result,           \* the returned list, once returned
    \* SearchCrawler.crawl_search_pages
    sc_pc,              \* position in crawl_search_pages
    sc_max_items,       \* its max_items argument
    collected_urls,     \* the set collected_urls
    sc_page,            \* the local page
    discovered,         \* the URLs in the order they were first added to collected_urls
    sc_fetches,         \* the fetch_html calls for search pages, in order
    sc_result,          \* the returned list, once returned
    \* main
    main_pc,            \* position in main
    actor_input,        \* what Actor.get_input() gives
    http_clients,       \* the number of HTTP clients set up so far
    \* process_search
    ps_pc,              \* position in process_search
    enqueue_calls,      \* the calls of enqueue_product_urls so far
    ps_result,          \* the returned list, once returned
    \* fetch_with_retry under its retry decorator
    fr_pc,              \* position in the retrying call
    attempt_number,     \* the attempt being made, 1-based
    fr_log,             \* how each finished attempt ended, in order
    fr_outcome          \* what the caller of fetch_with_retry gets

extract_vars == << html, url, pc, jsonld_data, html_prices, outcome, cascade, steps >>
pg_vars == << pg_pc, max_items, current_page, all_products, page_product_urls, page_prices, products_to_process, pg_i, basic_product, detailed_product, dataset, fetches, pg_result >>
q_vars == << q_pc, queue, handled, enqueued_count, products, processed_count, failed_count, request, product, q_result >>

sc_vars == << sc_pc, sc_max_items, collected_urls, sc_page, discovered, sc_fetches, sc_result >>

entry_vars == << main_pc, actor_input, http_clients, ps_pc, enqueue_calls, ps_result, fr_pc, attempt_number, fr_log, fr_outcome >>

vars == << extract_vars, pg_vars, q_vars, sc_vars, files, entry_vars >>

NoPrices == [current_price |-> None, regular_price |-> None, discounted_price |-> None]

\* current_price = None, regular_price = None before the pattern loops
NoCascade == [current_price |-> None, regular_price |-> None]

\* the two locals after the pattern loops over the given pattern lists
run_cascades(current_patterns, regular_patterns, html_) ==
    [current_price |-> FirstConverted(current_patterns, html_.cur),
     regular_price |-> FirstConverted(regular_patterns, html_.old)]

\* the drivers of main.py are not running
PaginateIdle ==
    /\ pg_pc = "idle"
    /\ max_items = 0
    /\ current_page = 1
    /\ all_products = << >>
    /\ page_product_urls = << >>
    /\ page_prices = << >>
    /\ products_to_process = 0
    /\ pg_i = 1
    /\ basic_product = None
    /\ detailed_product = None
    /\ dataset = << >>
    /\ fetches = << >>
    /\ pg_result = None

QueueIdle ==
    /\ q_pc = "idle"
    /\ queue = << >>
    /\ handled = { }
    /\ enqueued_count = 0
    /\ products = << >>
    /\ processed_count = 0
    /\ failed_count = 0
    /\ request = None
    /\ product = None
    /\ q_result = None

\* crawl_search_pages is not running
SearchIdle ==
    /\ sc_pc = "idle"
    /\ sc_max_items = 0
    /\ collected_urls = { }
    /\ sc_page = 1
    /\ discovered = << >>
    /\ sc_fetches = << >>
    /\ sc_result = None

\* main, process_search and fetch_with_retry are not running
EntryIdle ==
    /\ main_pc = "idle"
    /\ actor_input = None
    /\ http_clients = 0
    /\ ps_pc = "idle"
    /\ enqueue_calls = 0
    /\ ps_result = None
    /\ fr_pc = "idle"
    /\ attempt_number = 1
    /\ fr_log = << >>
    /\ fr_outcome = None

\* no extract_product_data call is being stepped through
ExtractIdle ==
    /\ html = None
    /\ url = None
    /\ pc = "idle"
    /\ jsonld_data = None
    /\ html_prices = NoPrices
    /\ outcome = Returned(None)
    /\ cascade = NoCascade
    /\ steps = << >>

\* the call extract_product_data(page, u) is about to run
Call(page, u) ==
    /\ html = page
    /\ url = u
    /\ pc = "classify"
    /\ jsonld_data = None
    /\ html_prices = NoPrices
    /\ outcome = Returned(None)
    /\ cascade = NoCascade
    /\ steps = << >>
    /\ files = { }
    /\ EntryIdle
    /\ PaginateIdle
    /\ QueueIdle
    /\ SearchIdle

Init ==
    \/ \E page \in TitledPricePages : Call(page, PlainUrl)
    \/ \E page \in UntitledPricePages : Call(page, PlainUrl)
    \/ \E page \in ExamplePages : Call(page, PlainUrl)
    \/ \E page \in FieldPages : Call(page, PlainUrl)
    \/ \E page \in RangePages : Call(page, PlainUrl)
    \/ \E page \in MalformedPages : Call(page, PlainUrl)
    \/ \E page \in SellerLinkPages : Call(page, PlainUrl)
    \/ \E page \in CascadePages : Call(page, PlainUrl)
    \/ \E page \in StructuredPages : Call(page, PlainUrl)
    \/ \E page \in GuardPages, u \in GuardUrls : Call(page, u)

\* extract_product_data, lines 212-215: the page guard
Classify ==
    /\ pc = "classify"
    /\ pc' = IF is_non_product_page(html, url) THEN "done" ELSE "structured"
    /\ outcome' = Returned(None)
    /\ UNCHANGED << html, url, jsonld_data, html_prices, cascade, steps, files, pg_vars, q_vars, sc_vars, entry_vars >>

\* line 218: jsonld_data = await self.extract_jsonld_data(html)
ExtractStructured ==
    /\ pc = "structured"
    /\ jsonld_data' = extract_jsonld_data(html)
    /\ steps' = Append(steps, "extract_jsonld_data")
    /\ pc' = "dom"
    /\ UNCHANGED << html, url, html_prices, outcome, cascade, files, pg_vars, q_vars, sc_vars, entry_vars >>

\* lines 221-223: html_prices = await self.extract_prices_from_html(html)
ExtractDOM ==
    /\ pc = "dom"
    /\ html_prices' = extract_prices_from_html(html)
    /\ cascade' = run_cascades(current_price_patterns, regular_price_patterns, html)
    /\ steps' = Append(steps, "extract_prices_from_html")
    /\ pc' = IF IsNone(jsonld_data) THEN "html" ELSE "merge"
    /\ UNCHANGED << html, url, jsonld_data, outcome, files, pg_vars, q_vars, sc_vars, entry_vars >>

\* line 225: return await self.extract_data_from_html(html, url)
ExtractHtml ==
    /\ pc = "html"
    /\ outcome' = extract_data_from_html(html, url)
    /\ cascade' = run_cascades(html_current_price_patterns, html_regular_price_patterns, html)
    /\ files' = IF writes_debug_file(html) THEN files \cup { debug_file(url) } ELSE files
    /\ steps' = Append(steps, "extract_data_from_html")
    /\ pc' = "done"
    /\ UNCHANGED << html, url, jsonld_data, html_prices, pg_vars, q_vars, sc_vars, entry_vars >>

\* lines 227-371: merge the JSON-LD fields with the DOM prices
Merge ==
    /\ pc = "merge"
    /\ outcome' = merge_jsonld(Val(jsonld_data), html_prices, url)
    /\ pc' = "done"
    /\ UNCHANGED << html, url, jsonld_data, html_prices, cascade, steps, files, pg_vars, q_vars, sc_vars, entry_vars >>

Next == Classify \/ ExtractStructured \/ ExtractDOM \/ ExtractHtml \/ Merge

Spec == Init /\ [][Next]_vars

\* ------------------------------------------------------------------------
\* Inputs of the drivers
\* ------------------------------------------------------------------------
\* max_items of the call; kept above MAX_PAGES so that the page limit can end the loop
MaxItems == 3
\* config.MAX_PAGES is 100; the model explores a smaller page limit
MAX_PAGES == 2
\* the listing pages the site answers before the model stops exploring
MaxFetches == 3

ProductUrl == [id |-> "u1", shipments |-> FALSE, ua_p_digits |-> TRUE]
ShipmentsUrl == [id |-> "u2", shipments |-> TRUE, ua_p_digits |-> FALSE]

\* the links of a search-result page that pass the '/ua/' filter, in order
LinkLists ==
    { << >>, << ProductUrl >>, << ShipmentsUrl >>, << ProductUrl, ShipmentsUrl >>,
      << ShipmentsUrl, ProductUrl >>, << ProductUrl, ProductUrl >> }

\* a data-qaprice text of the listing: numeric, below zero, or not a number
ListingPrices == { [kind |-> "num", v |-> 100], [kind |-> "num", v |-> -100], [kind |-> "bad", v |-> 0] }
ListingPriceLists ==
    { << >> } \cup { << a >> : a \in ListingPrices } \cup { << a, b >> : a \in ListingPrices, b \in ListingPrices }

SearchResponses ==
    { [links |-> l, titles |-> t, prices |-> q] : l \in LinkLists, t \in 0..2, q \in ListingPriceLists }

\* the product pages the site may serve
LdOffer == OffersDict(TitledOffer(StringPrice(<< "1" >>)))
GoodPage == Page("absent", << ObjectBlock(ProductItem(Some("T"), LdOffer, NoImage)) >>, NoCurrentMatch, NoRegularMatch, Some("H"), None, None, None, None)
TrackingPage == Page("upper", << ObjectBlock(ProductItem(Some("T"), LdOffer, NoImage)) >>, NoCurrentMatch, NoRegularMatch, Some("H"), None, None, None, None)
EmptyPage == Page("absent", << >>, NoCurrentMatch, NoRegularMatch, None, None, None, None, None)
HtmlOnlyPage == Page("absent", << >>, [NoCurrentMatch EXCEPT !["qa_span"] = Match(100)], NoRegularMatch, Some("H"), None, None, None, None)
NegativePricePage == Page("absent", << ObjectBlock(ProductItem(Some("T"), OffersDict(TitledOffer([kind |-> "num", v |-> -100])), NoImage)) >>, NoCurrentMatch, NoRegularMatch, Some("H"), None, None, None, None)

SamplePages == { GoodPage, TrackingPage, EmptyPage, HtmlOnlyPage, NegativePricePage }

\* list(dict.fromkeys(urls)): first occurrences, in order
RECURSIVE Dedupe(_)
Dedupe(s) ==
    IF s = << >> THEN << >>
    ELSE LET front == Dedupe(SubSeq(s, 1, Len(s) - 1))
             last == s[Len(s)]
         IN IF \E i \in 1..Len(front) : front[i] = last THEN front ELSE Append(front, last)

\* the debug files a process_product_page call writes
process_product_page_files(fetch_ok, html_, url_) ==
    IF fetch_ok /\ ~is_non_product_page(html_, url_) /\ IsNone(extract_jsonld_data(html_)) /\ writes_debug_file(html_)
    THEN { debug_file(url_) }
    ELSE { }

\* ------------------------------------------------------------------------
\* main.paginate_search_results
\* ------------------------------------------------------------------------

\* float(price_str) with its except ValueError
listing_price(raw) == IF raw.kind = "num" THEN Some(raw.v) ELSE None

\* the while condition of line 370
pg_continue == Len(all_products) < max_items /\ current_page <= MAX_PAGES

\* return all_products (line 521), or return [] from the except (line 525)
pg_return(list) ==
    /\ pg_result' = Some(list)
    /\ pg_pc' = "done"

\* the while condition fails: log and return all_products
PgLoopExit ==
    /\ pg_pc = "loop"
    /\ ~pg_continue
    /\ pg_return(all_products)
    /\ UNCHANGED << max_items, current_page, all_products, page_product_urls, page_prices, products_to_process, pg_i, basic_product, detailed_product, dataset, fetches >>
    /\ UNCHANGED << extract_vars, q_vars, sc_vars, files, entry_vars >>

\* client.get raises: the except of line 523 returns []
PgFetchFail ==
    /\ pg_pc = "loop"
    /\ pg_continue
    /\ Len(fetches) < MaxFetches
    /\ pg_return(<< >>)
    /\ UNCHANGED << max_items, current_page, all_products, page_product_urls, page_prices, products_to_process, pg_i, basic_product, detailed_product, dataset, fetches >>
    /\ UNCHANGED << extract_vars, q_vars, sc_vars, files, entry_vars >>

\* lines 371-443: fetch the search page, collect its links, titles and
\* prices; an empty link list writes the debug file and continues with
\* the same current_page
PgFetchPage ==
    /\ pg_pc = "loop"
    /\ pg_continue
    /\ Len(fetches) < MaxFetches
    /\ \E r \in SearchResponses :
          /\ fetches' = Append(fetches, [page |-> current_page, links |-> Len(r.links)])
          /\ IF r.links = << >>
             THEN /\ files' = files \cup { [kind |-> "debug_html_page", id |-> "", page |-> current_page] }
                  /\ UNCHANGED << pg_pc, pg_result, page_product_urls, page_prices, products_to_process, pg_i >>
             ELSE LET urls == Dedupe(r.links)
                      n == Min2(Min2(Len(urls), r.titles), Min2(Len(r.prices), max_items - Len(all_products)))
                  IN /\ files' = files
                     /\ page_product_urls' = urls
                     /\ page_prices' = SubSeq(r.prices, 1, n)
                     /\ products_to_process' = n
                     /\ pg_i' = 1
                     /\ IF n = 0 THEN pg_return(all_products)
                        ELSE pg_pc' = "process" /\ pg_result' = pg_result
    /\ UNCHANGED << max_items, current_page, all_products, basic_product, detailed_product, dataset >>
    /\ UNCHANGED << extract_vars, q_vars, sc_vars, entry_vars >>

\* lines 446-473: build the basic product of the listing, then await
\* process_product_page(url)
PgProcessProduct ==
    /\ pg_pc = "process"
    /\ LET u == page_product_urls[pg_i]
           basic == Product([url |-> u.id, title |-> Some("L"), regular_price_uah |-> None, discounted_price_uah |-> None, price_uah |-> listing_price(page_prices[pg_i]), currency |-> Some("UAH"), image_url |-> None, seller_name |-> None, seller_url |-> None, in_stock |-> None, position |-> Some(pg_i)])
       IN IF basic.raised
          THEN /\ pg_return(<< >>)
               /\ UNCHANGED << basic_product, detailed_product, files >>
          ELSE \E fetch_ok \in BOOLEAN, page \in SamplePages :
                  /\ basic_product' = basic.value
                  /\ detailed_product' = process_product_page(fetch_ok, page, u)
                  /\ files' = files \cup process_product_page_files(fetch_ok, page, u)
                  /\ pg_pc' = "push"
                  /\ pg_result' = pg_result
    /\ UNCHANGED << max_items, current_page, all_products, page_product_urls, page_prices, products_to_process, pg_i, dataset, fetches >>
    /\ UNCHANGED << extract_vars, q_vars, sc_vars, entry_vars >>

\* lines 475-514: choose the basic or the detailed record, append it,
\* await Actor.push_data; after the last product of the page either stop
\* (enough products) or move to the next page
PgPush ==
    /\ pg_pc = "push"
    /\ LET product_data == IF IsNone(detailed_product) THEN Val(basic_product)
                           ELSE [Val(detailed_product) EXCEPT !.position = Some(pg_i)]
           appended == Append(all_products, product_data)
       IN /\ all_products' = appended
          /\ \E push_ok \in BOOLEAN :
                IF ~push_ok
                THEN /\ pg_return(<< >>)
                     /\ UNCHANGED << dataset, pg_i, current_page >>
                ELSE /\ dataset' = Append(dataset, product_data)
                     /\ IF pg_i < products_to_process
                        THEN /\ pg_i' = pg_i + 1
                             /\ pg_pc' = "process"
                             /\ UNCHANGED << pg_result, current_page >>
                        ELSE IF Len(appended) >= max_items
                        THEN /\ pg_return(appended)
                             /\ UNCHANGED << pg_i, current_page >>
                        ELSE /\ current_page' = current_page + 1
                             /\ pg_pc' = "loop"
                             /\ UNCHANGED << pg_result, pg_i >>
    /\ UNCHANGED << max_items, page_product_urls, page_prices, products_to_process, basic_product, detailed_product, fetches >>
    /\ UNCHANGED << extract_vars, q_vars, sc_vars, files, entry_vars >>

NextPaginate == PgLoopExit \/ PgFetchFail \/ PgFetchPage \/ PgProcessProduct \/ PgPush

\* paginate_search_results(client, search_term, n) is about to run
InitPaginate ==
    /\ ExtractIdle
    /\ QueueIdle
    /\ SearchIdle
    /\ files = { }
    /\ EntryIdle
    /\ pg_pc = "loop"
    /\ max_items \in 1..MaxItems
    /\ current_page = 1
    /\ all_products = << >>
    /\ page_product_urls = << >>
    /\ page_prices = << >>
    /\ products_to_process = 0
    /\ pg_i = 1
    /\ basic_product = None
    /\ detailed_product = None
    /\ dataset = << >>
    /\ fetches = << >>
    /\ pg_result = None

SpecPaginate == InitPaginate /\ [][NextPaginate]_vars

\* ------------------------------------------------------------------------
\* main.process_product_queue
\* ------------------------------------------------------------------------
Request(u, label) == [url |-> u, label |-> label]

\* what the request queue may hold when process_product_queue starts
QueueContents ==
    { << Request(ProductUrl, "PRODUCT") >>,
      << Request(ShipmentsUrl, "PRODUCT") >>,
      << Request(ProductUrl, "PRODUCT"), Request(ShipmentsUrl, "PRODUCT") >>,
      << Request(ShipmentsUrl, "OTHER"), Request(ProductUrl, "PRODUCT") >> }

\* the while condition of line 275
q_continue == processed_count + failed_count < enqueued_count

\* the while condition fails: log the summary and return products
QLoopExit ==
    /\ q_pc = "loop"
    /\ ~q_continue
    /\ q_result' = Some(products)
    /\ q_pc' = "done"
    /\ UNCHANGED << queue, handled, enqueued_count, products, processed_count, failed_count, request, product >>
    /\ UNCHANGED << extract_vars, pg_vars, sc_vars, files, entry_vars >>

\* lines 277-280: fetch_next_request gives None: break and return products
QNoRequest ==
    /\ q_pc = "loop"
    /\ q_continue
    /\ queue = << >>
    /\ q_result' = Some(products)
    /\ q_pc' = "done"
    /\ UNCHANGED << queue, handled, enqueued_count, products, processed_count, failed_count, request, product >>
    /\ UNCHANGED << extract_vars, pg_vars, sc_vars, files, entry_vars >>

\* lines 277-301: fetch the next request and, for a PRODUCT request,
\* await process_product_page and count the result
QFetchProcess ==
    /\ q_pc = "loop"
    /\ q_continue
    /\ queue # << >>
    /\ request' = Some(Head(queue))
    /\ queue' = Tail(queue)
    /\ IF Head(queue).label = "PRODUCT"
       THEN \E fetch_ok \in BOOLEAN, page \in SamplePages :
               LET got == process_product_page(fetch_ok, page, Head(queue).url)
               IN /\ product' = got
                  /\ files' = files \cup process_product_page_files(fetch_ok, page, Head(queue).url)
                  /\ IF IsSome(got)
                     THEN /\ products' = Append(products, Val(got))
                          /\ processed_count' = processed_count + 1
                          /\ failed_count' = failed_count
                     ELSE /\ failed_count' = failed_count + 1
                          /\ UNCHANGED << products, processed_count >>
       ELSE UNCHANGED << product, files, products, processed_count, failed_count >>
    /\ q_pc' = "mark"
    /\ UNCHANGED << handled, enqueued_count, q_result >>
    /\ UNCHANGED << extract_vars, pg_vars, sc_vars, entry_vars >>

\* line 304: mark_request_as_handled succeeds
QMarkHandled ==
    /\ q_pc = "mark"
    /\ handled' = handled \cup { Val(request) }
    /\ q_pc' = "loop"
    /\ UNCHANGED << queue, enqueued_count, products, processed_count, failed_count, request, product, q_result >>
    /\ UNCHANGED << extract_vars, pg_vars, sc_vars, files, entry_vars >>

\* lines 304-310: mark_request_as_handled raises; the except reclaims the
\* request and counts a failure; reclaim_request raising leaves the function
QMarkFails ==
    /\ q_pc = "mark"
    /\ \E reclaim_ok \in BOOLEAN :
          IF reclaim_ok
          THEN /\ queue' = Append(queue, Val(request))
               /\ failed_count' = failed_count + 1
               /\ q_pc' = "loop"
          ELSE /\ q_pc' = "raised"
               /\ UNCHANGED << queue, failed_count >>
    /\ UNCHANGED << handled, enqueued_count, products, processed_count, request, product, q_result >>
    /\ UNCHANGED << extract_vars, pg_vars, sc_vars, files, entry_vars >>

NextQueue == QLoopExit \/ QNoRequest \/ QFetchProcess \/ QMarkHandled \/ QMarkFails

\* process_product_queue(client, request_queue, enqueued_count, session_id)
\* is about to run, as process_search calls it
InitQueue ==
    /\ ExtractIdle
    /\ PaginateIdle
    /\ SearchIdle
    /\ files = { }
    /\ EntryIdle
    /\ q_pc = "loop"
    /\ queue \in QueueContents
    /\ enqueued_count = Len(queue)
    /\ handled = { }
    /\ products = << >>
    /\ processed_count = 0
    /\ failed_count = 0
    /\ request = None
    /\ product = None
    /\ q_result = None

SpecQueue == InitQueue /\ [][NextQueue]_vars

\* one run of either driver
SpecDrivers == (InitPaginate \/ InitQueue) /\ [][NextPaginate \/ NextQueue]_vars

\* ------------------------------------------------------------------------
\* SearchCrawler (src/crawlers/search_crawler.py)
\* ------------------------------------------------------------------------

\* An href of a search-result page: the URL it resolves to, whether the
\* primary pattern /ua/p<digits>-<text>.html matches it (the lenient
\* pattern /ua/p<anything> matches every href modelled), and whether it
\* contains "product-opinions".
Href(id, primary, opinions) == [id |-> id, primary |-> primary, opinions |-> opinions]

Hrefs ==
    { Href("a", TRUE, FALSE), Href("b", TRUE, FALSE), Href("c", TRUE, FALSE),
      Href("d", FALSE, FALSE), Href("o", TRUE, TRUE) }

HrefLists ==
    { << >> } \cup { << x >> : x \in Hrefs } \cup { << x, y >> : x \in Hrefs, y \in Hrefs }

\* a search-result page: its hrefs in document order, and whether it has
\* an <a rel="next"> link
SearchPages == { [hrefs |-> h, next |-> n] : h \in HrefLists, n \in BOOLEAN }

IsPrimaryProductHref(h) == h.primary /\ ~h.opinions
IsLenientProductHref(h) == ~h.opinions

\* the absolute URLs of a list of hrefs, in order
UrlsOf(hs) == [i \in 1..Len(hs) |-> hs[i].id]

\* SearchCrawler.extract_product_urls: the primary pattern, the lenient
\* pattern when the primary one gave nothing, then list(dict.fromkeys(urls))
extract_product_urls(html_) ==
    LET urls == UrlsOf(SelectSeq(html_.hrefs, IsPrimaryProductHref))
    IN IF urls # << >> THEN Dedupe(urls)
       ELSE Dedupe(UrlsOf(SelectSeq(html_.hrefs, IsLenientProductHref)))

\* SearchCrawler.has_next_page
has_next_page(html_) == html_.next

\* for product_url in page_urls: add it while fewer than max_items are
\* collected, else break.  order is the sequence of first additions.
RECURSIVE add_urls(_, _, _, _)
add_urls(collected, order, urls, limit) ==
    IF urls = << >> \/ ~(Cardinality(collected) < limit) THEN [collected |-> collected, order |-> order]
    ELSE add_urls(collected \cup { Head(urls) },
                  IF Head(urls) \in collected THEN order ELSE Append(order, Head(urls)),
                  Tail(urls), limit)

\* list(a_set): the elements in an order the set's hashing decides
ListsOf(set) ==
    { l \in [1..Cardinality(set) -> set] : \A i, j \in 1..Cardinality(set) : l[i] = l[j] => i = j }

\* the while condition ignoring the page limit
sc_continue_without_page_limit == Cardinality(collected_urls) < sc_max_items

\* the while condition of line 122
sc_continue == Cardinality(collected_urls) < sc_max_items /\ sc_page <= MAX_PAGES

\* an except handler that never re-raises
sc_reraises_never(p) == FALSE

\* lines 157-162: the exception is re-raised unless page > 1
sc_reraises(p) == ~(p > 1)

\* lines 164-171: return [] or list(collected_urls)
sc_return(collected) ==
    /\ \E l \in ListsOf(collected) : sc_result' = Some(l)
    /\ sc_pc' = "done"

\* the while condition fails: return
ScLoopExit ==
    /\ sc_pc = "loop"
    /\ ~sc_continue
    /\ sc_return(collected_urls)
    /\ UNCHANGED << sc_max_items, collected_urls, sc_page, discovered, sc_fetches >>
    /\ UNCHANGED << extract_vars, pg_vars, q_vars, files, entry_vars >>

\* lines 123-153: fetch the page, collect its URLs, stop or move on
ScFetchPage ==
    /\ sc_pc = "loop"
    /\ sc_continue
    /\ \E html_ \in SearchPages :
          LET page_urls == extract_product_urls(html_)
              added == add_urls(collected_urls, discovered, page_urls, sc_max_items)
          IN /\ collected_urls' = added.collected
             /\ discovered' = added.order
             /\ sc_fetches' = Append(sc_fetches, [page |-> sc_page, ok |-> TRUE, links |-> Len(page_urls), next |-> has_next_page(html_), collected |-> Cardinality(added.collected)])
             /\ IF ~has_next_page(html_) \/ page_urls = << >>
                THEN /\ sc_return(added.collected)
                     /\ sc_page' = sc_page
                ELSE /\ sc_page' = sc_page + 1
                     /\ UNCHANGED << sc_pc, sc_result >>
    /\ UNCHANGED sc_max_items
    /\ UNCHANGED << extract_vars, pg_vars, q_vars, files, entry_vars >>

\* lines 155-162: fetch_html raises; break when page > 1, else re-raise
ScFetchFail ==
    /\ sc_pc = "loop"
    /\ sc_continue
    /\ sc_fetches' = Append(sc_fetches, [page |-> sc_page, ok |-> FALSE, links |-> 0, next |-> FALSE, collected |-> Cardinality(collected_urls)])
    /\ IF sc_reraises(sc_page)
       THEN sc_pc' = "raised" /\ sc_result' = sc_result
       ELSE sc_return(collected_urls)
    /\ UNCHANGED << sc_max_items, collected_urls, sc_page, discovered >>
    /\ UNCHANGED << extract_vars, pg_vars, q_vars, files, entry_vars >>

NextSearch == ScLoopExit \/ ScFetchPage \/ ScFetchFail

\* crawl_search_pages(search_term, n) is about to run
InitSearch ==
    /\ ExtractIdle
    /\ PaginateIdle
    /\ QueueIdle
    /\ files = { }
    /\ EntryIdle
    /\ sc_pc = "loop"
    /\ sc_max_items \in 0..MaxItems
    /\ collected_urls = { }
    /\ sc_page = 1
    /\ discovered = << >>
    /\ sc_fetches = << >>
    /\ sc_result = None

SpecSearch == InitSearch /\ [][NextSearch]_vars

\* one run of either walker of the search-result pages
SpecWalkers == (InitSearch \/ InitPaginate) /\ [][NextSearch \/ NextPaginate]_vars

\* ------------------------------------------------------------------------
\* What the claims speak about
\* ------------------------------------------------------------------------
Done == pc = "done"

\* extract_product_data returned a Product
HasRecord == Done /\ ~outcome.raised /\ IsSome(outcome.value)
Record == Val(outcome.value)

\* the page carries the order-tracking phrase in some letter case, or the
\* URL has the /shipments segment
NonProductInput == html.tracking \in { "lower", "upper" } \/ url.shipments

\* the JSON-LD Product block of the page, if it has one
PageBlock == extract_jsonld_data(html)
HasBlock == IsSome(PageBlock)

\* the structured-data price: the converted price of the block's offer
SdPrice ==
    IF HasBlock /\ IsSome(price_offer(Val(PageBlock).offers))
    THEN convert_jsonld_price(Val(price_offer(Val(PageBlock).offers)).price)
    ELSE None

\* a structured-data price that is a price (not below zero)
HasSdPrice == IsSome(SdPrice) /\ Val(SdPrice) >= 0

\* the DOM prices, as the pattern lists of the path the page takes give them
DomCurrent ==
    IF HasBlock THEN FirstConverted(current_price_patterns, html.cur)
    ELSE FirstConverted(html_current_price_patterns, html.cur)
DomOld ==
    IF HasBlock THEN FirstConverted(regular_price_patterns, html.old)
    ELSE FirstConverted(html_regular_price_patterns, html.old)

\* ------------------------------------------------------------------------
\* Claims
\* ------------------------------------------------------------------------

\* C1: in every Product returned by extract_product_data, on the JSON-LD
\* path and on the pure-HTML path, a present discounted_price_uah implies
\* a present regular_price_uah that is strictly greater.
C1_DiscountBelowRegular ==
    HasRecord /\ IsSome(Record.discounted_price_uah) =>
        /\ IsSome(Record.regular_price_uah)
        /\ Val(Record.regular_price_uah) > Val(Record.discounted_price_uah)

C1_Witness ==
    /\ HasRecord
    /\ ~HasBlock
    /\ IsSome(Record.discounted_price_uah)
    /\ IsSome(DomOld) /\ IsSome(DomCurrent)

\* C2: when a structured-data price sd exists, the record that
\* extract_product_data outputs has regular_price = sd, and
\* discounted_price = DOM current price when sd > 1.01 * DOM current
\* price, otherwise discounted_price = None.
C2_SdPriceIsRegular ==
    HasRecord /\ IsSome(SdPrice) =>
        /\ Record.regular_price_uah = SdPrice
        /\ Record.discounted_price_uah =
               IF IsSome(DomCurrent) /\ 100 * Val(SdPrice) > 101 * Val(DomCurrent)
               THEN DomCurrent ELSE None

C2_Witness ==
    /\ HasRecord
    /\ SdPrice = Some(50000)
    /\ DomCurrent = Some(49800)
    /\ Record.regular_price_uah = Some(50000)
    /\ Record.discounted_price_uah = None

\* C3 (as claimed): with no structured-data price and both DOM prices, a
\* discounted price is emitted only when old > 1.01 * current, and then
\* regular = old and discounted = current.
C3_DiscountNeedsOnePercent ==
    HasRecord /\ IsNone(SdPrice) /\ IsSome(DomOld) /\ IsSome(DomCurrent) =>
        IF 100 * Val(DomOld) > 101 * Val(DomCurrent)
        THEN Record.regular_price_uah = DomOld /\ Record.discounted_price_uah = DomCurrent
        ELSE Record.discounted_price_uah = None

\* C4 (as claimed): with no structured-data price and exactly one DOM
\* price, the record has regular_price = that price and no discounted
\* price, with or without a JSON-LD Product block.
C4_SinglePriceIsRegular ==
    HasRecord /\ IsNone(SdPrice) /\ (IsSome(DomOld) # IsSome(DomCurrent)) =>
        /\ Record.regular_price_uah = (IF IsSome(DomOld) THEN DomOld ELSE DomCurrent)
        /\ Record.discounted_price_uah = None

\* C5: with no structured-data price and DOM old price <= DOM current
\* price, the record has regular_price = DOM current price and no
\* discounted price.
C5_OldNotAboveCurrent ==
    HasRecord /\ IsNone(SdPrice) /\ IsSome(DomOld) /\ IsSome(DomCurrent) /\ Val(DomOld) <= Val(DomCurrent) =>
        /\ Record.regular_price_uah = DomCurrent
        /\ Record.discounted_price_uah = None

C5_Witness ==
    /\ HasRecord
    /\ HasBlock
    /\ IsNone(SdPrice)
    /\ DomOld = Some(80000)
    /\ DomCurrent = Some(100000)
    /\ Record.regular_price_uah = Some(100000)

\* C6 (as claimed): no Product with title, regular_price_uah and
\* discounted_price_uah all absent is ever returned.
C6_NoEmptyRecord ==
    HasRecord =>
        ~ /\ IsNone(Record.title)
          /\ IsNone(Record.regular_price_uah)
          /\ IsNone(Record.discounted_price_uah)

\* C7: a page with the order-tracking phrase (in any letter case) or a
\* /shipments URL is rejected by the first step: no extraction call is
\* ever made for it and the result is None, whatever the page holds.
C7_GuardRejectsFirst ==
    NonProductInput =>
        /\ steps = << >>
        /\ pc \in { "classify", "done" }
        /\ Done => outcome = Returned(None)

C7_Witness ==
    /\ Done
    /\ html.tracking = "upper"
    /\ ~url.shipments
    /\ url.ua_p_digits
    /\ HasBlock
    /\ IsSome(FirstConverted(current_price_patterns, html.cur))
    /\ outcome = Returned(None)

\* C9 (as claimed): when a JSON-LD Product block is found, a field (title,
\* image, seller name, availability) is absent in the record only if the
\* structured data and the DOM both lack it.
C9_DomFillsGaps ==
    HasRecord /\ HasBlock =>
        /\ IsNone(Record.title) => IsNone(html.h1)
        /\ IsNone(Record.image_url) => IsNone(html.dom_image)
        /\ IsNone(Record.seller_name) => IsNone(html.dom_seller_name)
        /\ IsNone(Record.in_stock) => IsNone(html.dom_presence)

\* C10 (as claimed): for a page whose JSON-LD Product block carries an
\* offer price P, the returned Product has price_uah = P.
C10_PriceUahIsOfferPrice ==
    Done /\ ~NonProductInput /\ HasSdPrice =>
        HasRecord /\ Record.price_uah = SdPrice

\* C8 (as claimed): when process_product_page returns None for a product
\* page, no record is pushed to the dataset for it by
\* paginate_search_results and none is appended by process_product_queue.
C8_RejectedPageNoRecord ==
    [][ /\ (pg_pc = "push" /\ IsNone(detailed_product)) => dataset' = dataset
        /\ (q_pc = "loop" /\ q_pc' = "mark" /\ Val(request').label = "PRODUCT" /\ IsNone(product')) => products' = products ]_vars

\* the offer the price is read from, when the page has a JSON-LD block
PriceOffer ==
    IF HasBlock THEN price_offer(Val(PageBlock).offers) ELSE None

\* C11 (as claimed): the seller name is read from the nested seller object
\* of the offer the price is read from, whether offers is a single object
\* or a list (first element): when that offer has a seller name, the
\* record's seller_name is that name.
C11_SellerFromPriceOffer ==
    /\ HasRecord
    /\ IsSome(PriceOffer)
    /\ Val(PriceOffer).seller.kind = "dict"
    /\ IsSome(Val(PriceOffer).seller.name)
    => Record.seller_name = Val(PriceOffer).seller.name

\* C12 (as claimed): when the JSON-LD offer carries both an explicit high
\* price and an explicit low price, the record's regular_price is the high
\* price and its discounted_price is the low price, whatever the plain
\* offer price is.
C12_HighLowOverride ==
    /\ HasRecord
    /\ IsSome(PriceOffer)
    /\ IsSome(Val(PriceOffer).highPrice)
    /\ IsSome(Val(PriceOffer).lowPrice)
    => /\ Record.regular_price_uah = Val(PriceOffer).highPrice
       /\ Record.discounted_price_uah = Val(PriceOffer).lowPrice

\* C13 (as claimed): a malformed value in a single field source (a JSON-LD
\* seller url or availability that is not a string, a negative JSON-LD
\* price, ...) makes only that field absent: extract_product_data raises
\* no exception, and a page with a JSON-LD Product block still yields a
\* record.
C13_MalformedFieldOnlyAbsent ==
    Done =>
        /\ ~outcome.raised
        /\ (HasBlock /\ ~NonProductInput) => IsSome(outcome.value)

\* the raw "price" value of the offer the price is read from
RawPrice ==
    IF IsSome(PriceOffer) THEN Val(PriceOffer).price ELSE AbsentPrice

\* the page with the "price" key of its (first block's first item's) offer
\* removed
WithoutPrice(html_) ==
    [html_ EXCEPT !.scripts[1].items[1].offers.items[1].price = AbsentPrice]

\* C14: a JSON-LD price string is normalised (spaces removed, "," replaced
\* by ".") before conversion, so "1 299,50" gives 1299.50 and "1,02" gives
\* 1.02; a JSON-LD price that still cannot be converted is treated exactly
\* as an absent one: the call raises nothing and returns what it returns
\* for the same page without the price.
C14_PriceStringNormalized ==
    Done /\ ~NonProductInput /\ RawPrice.kind \in { "str", "list" } =>
        /\ RawPrice = StringPrice(<< "1", " ", "2", "9", "9", ",", "5", "0" >>) =>
               HasRecord /\ Record.regular_price_uah = Some(129950)
        /\ RawPrice = StringPrice(<< "1", ",", "0", "2" >>) =>
               HasRecord /\ Record.regular_price_uah = Some(102)
        /\ IsNone(SdPrice) =>
               /\ ~outcome.raised
               /\ outcome = extract_product_data(WithoutPrice(html), url)

C14_Witness ==
    /\ HasRecord
    /\ RawPrice = StringPrice(<< "1", ",", "2", "9", "9", ".", "5", "0" >>)
    /\ DomOld = Some(102)
    /\ DomCurrent = Some(100)
    /\ Record.regular_price_uah = Some(102)
    /\ Record.discounted_price_uah = Some(100)

\* got is what an in-order cascade over the patterns yields: the value of
\* the first pattern that matches and converts, None if there is none
IsFirstConverting(patterns, table, got) ==
    /\ IsSome(got) =>
          \E k \in 1..Len(patterns) :
              /\ table[patterns[k]] = Match(Val(got))
              /\ \A j \in 1..(k-1) : table[patterns[j]].m # "ok"
    /\ IsNone(got) =>
          \A k \in 1..Len(patterns) : table[patterns[k]].m # "ok"

\* C15: for the DOM current price and the DOM old price, in
\* extract_prices_from_html and in extract_data_from_html, the extracted
\* value is that of the first pattern, in list order, that matches and
\* converts; a match that fails conversion is skipped, and the value is
\* absent only if every pattern fails.
C15_FirstConvertingPattern ==
    /\ (pc \in { "html", "merge" } \/ (Done /\ HasBlock /\ steps # << >>)) =>
          /\ IsFirstConverting(current_price_patterns, html.cur, cascade.current_price)
          /\ IsFirstConverting(regular_price_patterns, html.old, cascade.regular_price)
    /\ (Done /\ ~HasBlock /\ steps # << >>) =>
          /\ IsFirstConverting(html_current_price_patterns, html.cur, cascade.current_price)
          /\ IsFirstConverting(html_regular_price_patterns, html.old, cascade.regular_price)

C15_Witness ==
    /\ Done
    /\ ~HasBlock
    /\ html.cur["qa_span"] = BadMatch
    /\ html.cur["microdata"] = Match(102)
    /\ html.old["old_span"] = Match(101)
    /\ html.old["crossed"] = Match(103)
    /\ cascade = [current_price |-> Some(102), regular_price |-> Some(101)]

\* item i of block b is a Product item of the page
IsProductAt(b, i) ==
    /\ b \in 1..Len(html.scripts)
    /\ html.scripts[b].kind # "bad_json"
    /\ i \in 1..Len(html.scripts[b].items)
    /\ html.scripts[b].items[i].is_dict
    /\ html.scripts[b].items[i].type = "Product"

\* (b1, i1) comes before (b2, i2) in document order
Before(b1, i1, b2, i2) == b1 < b2 \/ (b1 = b2 /\ i1 < i2)

\* C16: extract_jsonld_data returns the first item, in document order over
\* all ld+json blocks and over the elements of array blocks, whose type is
\* "Product"; blocks that fail to parse or hold no Product are skipped, and
\* None is returned only when no block holds a Product.
C16_FirstProductInDocumentOrder ==
    pc \in { "dom", "html", "merge" } =>
        /\ IsSome(jsonld_data) =>
              \E b \in 1..Len(html.scripts) : \E i \in 1..Len(html.scripts[b].items) :
                  /\ IsProductAt(b, i)
                  /\ Val(jsonld_data) = html.scripts[b].items[i]
                  /\ \A b0 \in 1..b : \A i0 \in 1..Len(html.scripts[b0].items) :
                         Before(b0, i0, b, i) => ~IsProductAt(b0, i0)
        /\ IsNone(jsonld_data) =>
              \A b \in 1..Len(html.scripts) : \A i \in 1..Len(html.scripts[b].items) :
                  ~IsProductAt(b, i)

C16_Witness ==
    /\ pc = "merge"
    /\ Len(html.scripts) = 3
    /\ html.scripts[1] = BadJsonBlock
    /\ html.scripts[2] = ArrayBlock(<< NonDictItem, ProductB, ProductA >>)
    /\ html.scripts[3] = ObjectBlock(ProductA)
    /\ jsonld_data = Some(ProductB)

\* crawl_search_pages returned a list
SearchReturned == sc_pc = "done" /\ IsSome(sc_result)

\* C17 (as claimed): crawl_search_pages returns a sequence that contains
\* no URL twice and whose order is the order of first discovery, page by
\* page and within a page in the order of the links.
C17_DiscoveryOrder ==
    SearchReturned =>
        /\ \A i, j \in 1..Len(Val(sc_result)) : Val(sc_result)[i] = Val(sc_result)[j] => i = j
        /\ Val(sc_result) = discovered

\* a log of fetches has no fetch after one that yielded zero links
NoFetchAfterEmptyPage(log) ==
    \A k \in 1..Len(log) : log[k].links = 0 => k = Len(log)

\* C18 (as claimed): after a fetched search-result page yields zero product
\* links the walker performs no further fetch and terminates, in
\* crawl_search_pages and in paginate_search_results.
C18_EmptyPageStops ==
    /\ NoFetchAfterEmptyPage(sc_fetches)
    /\ (sc_fetches # << >> /\ sc_fetches[Len(sc_fetches)].ok /\ sc_fetches[Len(sc_fetches)].links = 0) => sc_pc = "done"
    /\ NoFetchAfterEmptyPage(fetches)
    /\ (fetches # << >> /\ fetches[Len(fetches)].links = 0) => pg_pc = "done"

\* C19: crawl_search_pages requests pages 1, 2, 3, ... in turn, and
\* fetches page k+1 only if after page k fewer than max_items URLs are
\* collected, page k had a next-page indicator and yielded at least one
\* link, and k < MAX_PAGES; it never returns more than max_items URLs and
\* never fetches more than MAX_PAGES pages.
C19_PageSequence ==
    /\ \A k \in 1..Len(sc_fetches) : sc_fetches[k].page = k
    /\ \A k \in 1..(Len(sc_fetches) - 1) :
          /\ sc_fetches[k].ok
          /\ sc_fetches[k].collected < sc_max_items
          /\ sc_fetches[k].next
          /\ sc_fetches[k].links >= 1
          /\ k < MAX_PAGES
    /\ Len(sc_fetches) <= MAX_PAGES
    /\ SearchReturned => Len(Val(sc_result)) <= sc_max_items

C19_Witness ==
    /\ SearchReturned
    /\ Len(sc_fetches) = MAX_PAGES
    /\ sc_fetches[MAX_PAGES].ok
    /\ sc_fetches[MAX_PAGES].next
    /\ sc_fetches[MAX_PAGES].links >= 1
    /\ Len(Val(sc_result)) < sc_max_items

\* the set of elements of a sequence
Range(seq) == { seq[i] : i \in 1..Len(seq) }

\* C20: in crawl_search_pages a fetch failure on a page numbered above 1
\* ends pagination without raising, and the call returns exactly the URLs
\* collected from the earlier pages; a fetch failure on page 1 is raised
\* to the caller.
C20_FetchFailure ==
    (sc_fetches # << >> /\ ~sc_fetches[Len(sc_fetches)].ok) =>
        IF Len(sc_fetches) > 1
        THEN /\ SearchReturned
             /\ Range(Val(sc_result)) = Range(discovered)
             /\ Len(Val(sc_result)) = Len(discovered)
             /\ Len(discovered) = sc_fetches[Len(sc_fetches) - 1].collected
        ELSE sc_pc = "raised" /\ IsNone(sc_result)

C20_Witness ==
    /\ SearchReturned
    /\ Len(sc_fetches) = 2
    /\ ~sc_fetches[2].ok
    /\ Len(Val(sc_result)) = 2

\* ------------------------------------------------------------------------
\* Seller links
\* ------------------------------------------------------------------------

\* a URL with a scheme and a host
IsAbsolute(u) == Len(u) > 0 /\ u[1] \in { "https://prom.ua", "http://shop.example" }

\* the join the seller link is said to get
JoinedToOrigin(u) ==
    IF IsAbsolute(u) THEN u
    ELSE IF StartsWithSlash(u) THEN << Origin >> \o u
    ELSE << Origin, "/" >> \o u

\* the seller links the page carries, in the structured data and in the DOM
SellerLinksOfPage ==
    (IF IsSome(PriceOffer) /\ Val(PriceOffer).seller.kind = "dict" /\ IsSome(Val(PriceOffer).seller.url)
     THEN { Val(Val(PriceOffer).seller.url) } ELSE { }) \cup
    (IF IsSome(html.dom_seller_href) THEN { Val(html.dom_seller_href) } ELSE { })

\* C21 (as claimed): every non-null seller_url of a returned record is
\* absolute: it is a seller link of the page, unchanged when that link is
\* absolute, and joined to the site origin otherwise (origin + path for a
\* leading slash, origin + "/" + path without one).
C21_SellerUrlAbsolute ==
    HasRecord /\ IsSome(Record.seller_url)
    => /\ IsAbsolute(Val(Record.seller_url))
       /\ Val(Record.seller_url) \in { JoinedToOrigin(l) : l \in SellerLinksOfPage }

\* ------------------------------------------------------------------------
\* Currency
\* ------------------------------------------------------------------------

\* the string has a lowercase letter
HasLowercase(s) == s \in { "uah", "Uah", "usd" }

\* C22: in every record the currency, when present, is uppercase,
\* whatever the case of the priceCurrency string of the structured data.
C22_CurrencyUppercase ==
    HasRecord /\ IsSome(Record.currency) => ~HasLowercase(Val(Record.currency))

C22_Witness ==
    /\ HasRecord
    /\ IsSome(PriceOffer)
    /\ Val(PriceOffer).priceCurrency = Some("Uah")
    /\ Record.currency = Some("UAH")

\* ------------------------------------------------------------------------
\* Side effects of an extraction
\* ------------------------------------------------------------------------

\* C23 (as claimed): an extraction call changes no state outside its
\* returned record: no step of extract_product_data changes the files of
\* the working directory.
C23_ExtractionIsPure ==
    [][ pc' # pc => files' = files ]_vars

\* ------------------------------------------------------------------------
\* main (src/main.py)
\* ------------------------------------------------------------------------

\* actor_input.get("max_items", 10)
DEFAULT_MAX_ITEMS == 10

\* what Actor.get_input() may give: nothing, or a dict with or without
\* its two keys
ActorInputs ==
    { None } \cup
    { Some([search_term |-> t, max_items |-> m]) : t \in { None, Some(""), Some("q") }, m \in { None } \cup { Some(n) : n \in 1..MaxItems } }

\* a search term of None only counts as missing
search_term_is_none(t) == IsNone(t)

\* not search_term: None or the empty string
search_term_missing(t) == IsNone(t) \/ Val(t) = ""

\* (await Actor.get_input() or {}).get("search_term")
input_search_term == IF IsNone(actor_input) THEN None ELSE Val(actor_input).search_term

\* (await Actor.get_input() or {}).get("max_items", 10)
input_max_items ==
    IF IsNone(actor_input) \/ IsNone(Val(actor_input).max_items) THEN DEFAULT_MAX_ITEMS
    ELSE Val(Val(actor_input).max_items)

\* lines 544-553: read the input; raise ValueError("search_term is
\* required") when there is no search term
MainValidate ==
    /\ main_pc = "start"
    /\ main_pc' = IF search_term_missing(input_search_term) THEN "raised" ELSE "client"
    /\ UNCHANGED << actor_input, http_clients, ps_pc, enqueue_calls, ps_result, fr_pc, attempt_number, fr_log, fr_outcome >>
    /\ UNCHANGED << extract_vars, pg_vars, q_vars, sc_vars, files >>

\* line 556 and 558: set up the HTTP client (which may fail) and call
\* paginate_search_results(client, search_term, max_items)
MainSetupClient ==
    /\ main_pc = "client"
    /\ \E ok \in BOOLEAN :
        IF ok
        THEN /\ http_clients' = http_clients + 1
             /\ main_pc' = "paginate"
             /\ pg_pc' = "loop"
             /\ max_items' = input_max_items
        ELSE /\ main_pc' = "failed"
             /\ UNCHANGED << http_clients, pg_pc, max_items >>
    /\ UNCHANGED << current_page, all_products, page_product_urls, page_prices, products_to_process, pg_i, basic_product, detailed_product, dataset, fetches, pg_result >>
    /\ UNCHANGED << actor_input, ps_pc, enqueue_calls, ps_result, fr_pc, attempt_number, fr_log, fr_outcome >>
    /\ UNCHANGED << extract_vars, q_vars, sc_vars, files >>

\* paginate_search_results returned: main ends
MainReturn ==
    /\ main_pc = "paginate"
    /\ pg_pc = "done"
    /\ main_pc' = "done"
    /\ UNCHANGED << actor_input, http_clients, ps_pc, enqueue_calls, ps_result, fr_pc, attempt_number, fr_log, fr_outcome >>
    /\ UNCHANGED << extract_vars, pg_vars, q_vars, sc_vars, files >>

NextMain == MainValidate \/ MainSetupClient \/ MainReturn \/ NextPaginate

InitMain ==
    /\ ExtractIdle
    /\ PaginateIdle
    /\ QueueIdle
    /\ SearchIdle
    /\ files = { }
    /\ main_pc = "start"
    /\ actor_input \in ActorInputs
    /\ http_clients = 0
    /\ ps_pc = "idle"
    /\ enqueue_calls = 0
    /\ ps_result = None
    /\ fr_pc = "idle"
    /\ attempt_number = 1
    /\ fr_log = << >>
    /\ fr_outcome = None

SpecMain == InitMain /\ [][NextMain]_vars

\* C24: when the actor input has no search_term (no input, no key, or
\* the empty string), main raises ValueError("search_term is required")
\* with no HTTP client set up, no page fetched and no record pushed.
C24_SearchTermRequired ==
    (main_pc # "start" /\ (IsNone(input_search_term) \/ input_search_term = Some(""))) =>
        /\ main_pc = "raised"
        /\ http_clients = 0
        /\ fetches = << >>
        /\ steps = << >>
        /\ dataset = << >>

C24_Witness ==
    /\ main_pc = "raised"
    /\ actor_input = Some([search_term |-> Some(""), max_items |-> Some(2)])
    /\ http_clients = 0

\* ------------------------------------------------------------------------
\* process_search (src/main.py) with SearchCrawler.enqueue_product_urls
\* ------------------------------------------------------------------------

\* the request URL of a collected product URL
ProductUrlOf(id) == [id |-> id, shipments |-> FALSE, ua_p_digits |-> TRUE]

\* enqueue_product_urls, lines 194-202: one PRODUCT request per URL
requests_of(product_urls) == [i \in 1..Len(product_urls) |-> Request(ProductUrlOf(product_urls[i]), "PRODUCT")]

\* the early return is never taken
nothing_enqueued_never(count) == FALSE

\* if enqueued_count == 0
nothing_enqueued(count) == count = 0

RECURSIVE direct_products(_, _, _)
\* extract_products_direct, lines 163-192: the records of the first n
\* listing entries, or a raise when a Product constructor raises
direct_products(response, urls, n) ==
    IF n = 0 THEN Returned(<< >>)
    ELSE LET rest == direct_products(response, urls, n - 1)
             made == Product([url |-> urls[n].id, title |-> Some("L"), regular_price_uah |-> None, discounted_price_uah |-> None, price_uah |-> listing_price(response.prices[n]), currency |-> Some("UAH"), image_url |-> None, seller_name |-> None, seller_url |-> None, in_stock |-> None, position |-> None])
         IN IF rest.raised \/ made.raised THEN Raised
            ELSE Returned(Append(rest.value, Val(made.value)))

\* extract_products_direct: the fallback reads the first search page only;
\* every exception gives []
extract_products_direct(fetch_ok, response, max_items_) ==
    LET deduped == Dedupe(response.links)
        product_urls == SubSeq(deduped, 1, Min2(Len(deduped), max_items_))
        max_products == Min2(Min2(Len(product_urls), response.titles), Min2(Len(response.prices), max_items_))
        made == direct_products(response, product_urls, max_products)
    IN IF ~fetch_ok \/ product_urls = << >> \/ made.raised THEN << >>
       ELSE made.value

\* lines 213-228: open the request queue, set up the HTTP client, create
\* the crawler and call enqueue_product_urls, which starts
\* crawl_search_pages(search_term, max_items)
PsStart ==
    /\ ps_pc = "start"
    /\ http_clients' = http_clients + 1
    /\ enqueue_calls' = enqueue_calls + 1
    /\ sc_pc' = "loop"
    /\ ps_pc' = "enqueue"
    /\ UNCHANGED << sc_max_items, collected_urls, sc_page, discovered, sc_fetches, sc_result >>
    /\ UNCHANGED << main_pc, actor_input, ps_result, fr_pc, attempt_number, fr_log, fr_outcome >>
    /\ UNCHANGED << extract_vars, pg_vars, q_vars, files >>

\* crawl_search_pages returned: enqueue_product_urls adds one request per
\* URL; an add_request that raises leaves the requests added before it in
\* the queue and goes through the except of line 236; zero enqueued URLs
\* return [], otherwise process_product_queue starts
PsEnqueue ==
    /\ ps_pc = "enqueue"
    /\ sc_pc = "done"
    /\ \E added \in 0..Len(Val(sc_result)) :
         /\ queue' = SubSeq(requests_of(Val(sc_result)), 1, added)
         /\ IF added = Len(Val(sc_result))
            THEN /\ enqueued_count' = added
                 /\ IF nothing_enqueued(added)
                    THEN /\ ps_result' = Some(<< >>)
                         /\ ps_pc' = "done"
                         /\ q_pc' = q_pc
                    ELSE /\ ps_pc' = "queue"
                         /\ q_pc' = "loop"
                         /\ ps_result' = ps_result
            ELSE /\ ps_pc' = "fallback"
                 /\ UNCHANGED << enqueued_count, q_pc, ps_result >>
    /\ UNCHANGED << handled, products, processed_count, failed_count, request, product, q_result >>
    /\ UNCHANGED << main_pc, actor_input, http_clients, enqueue_calls, fr_pc, attempt_number, fr_log, fr_outcome >>
    /\ UNCHANGED << extract_vars, pg_vars, sc_vars, files >>

\* crawl_search_pages raised: the except of line 236 takes the fallback
PsEnqueueRaised ==
    /\ ps_pc = "enqueue"
    /\ sc_pc = "raised"
    /\ ps_pc' = "fallback"
    /\ UNCHANGED << main_pc, actor_input, http_clients, enqueue_calls, ps_result, fr_pc, attempt_number, fr_log, fr_outcome >>
    /\ UNCHANGED << extract_vars, pg_vars, q_vars, sc_vars, files >>

\* lines 239-241: return await extract_products_direct(...)
PsFallback ==
    /\ ps_pc = "fallback"
    /\ \E fetch_ok \in BOOLEAN, response \in SearchResponses :
          ps_result' = Some(extract_products_direct(fetch_ok, response, sc_max_items))
    /\ ps_pc' = "done"
    /\ UNCHANGED << main_pc, actor_input, http_clients, enqueue_calls, fr_pc, attempt_number, fr_log, fr_outcome >>
    /\ UNCHANGED << extract_vars, pg_vars, q_vars, sc_vars, files >>

\* lines 244-246: return what process_product_queue returns; its
\* exception is not caught
PsReturn ==
    /\ ps_pc = "queue"
    /\ q_pc \in { "done", "raised" }
    /\ IF q_pc = "done"
       THEN ps_result' = q_result /\ ps_pc' = "done"
       ELSE ps_result' = ps_result /\ ps_pc' = "raised"
    /\ UNCHANGED << main_pc, actor_input, http_clients, enqueue_calls, fr_pc, attempt_number, fr_log, fr_outcome >>
    /\ UNCHANGED << extract_vars, pg_vars, q_vars, sc_vars, files >>

\* The queue holds PRODUCT requests only, and each request fetched is
\* counted, so fetch_next_request never finds the queue empty while the
\* loop condition holds: QNoRequest has no step here.
NextProcessSearch == PsStart \/ PsEnqueue \/ PsEnqueueRaised \/ PsFallback \/ PsReturn \/ NextSearch \/ QLoopExit \/ QFetchProcess \/ QMarkHandled \/ QMarkFails

\* process_search(search_term, max_items) is about to run; max_items is
\* what it hands on to crawl_search_pages
InitProcessSearch ==
    /\ ExtractIdle
    /\ PaginateIdle
    /\ QueueIdle
    /\ files = { }
    /\ sc_pc = "idle"
    /\ sc_max_items \in 0..MaxItems
    /\ collected_urls = { }
    /\ sc_page = 1
    /\ discovered = << >>
    /\ sc_fetches = << >>
    /\ sc_result = None
    /\ main_pc = "idle"
    /\ actor_input = None
    /\ http_clients = 0
    /\ ps_pc = "start"
    /\ enqueue_calls = 0
    /\ ps_result = None
    /\ fr_pc = "idle"
    /\ attempt_number = 1
    /\ fr_log = << >>
    /\ fr_outcome = None

SpecProcessSearch == InitProcessSearch /\ [][NextProcessSearch]_vars

\* enqueue_product_urls returned zero
EnqueuedZero == ps_pc \in { "queue", "done", "raised" } /\ sc_pc = "done" /\ Val(sc_result) = << >>

\* C25: when enqueue_product_urls enqueues zero URLs, process_search
\* returns an empty list after exactly one call of enqueue_product_urls,
\* with no request fetched from the queue and no product page fetched.
C25_NothingEnqueued ==
    EnqueuedZero =>
        /\ ps_pc = "done"
        /\ ps_result = Some(<< >>)
        /\ enqueue_calls = 1
        /\ q_pc = "idle"
        /\ request = None
        /\ product = None

C25_Witness ==
    /\ EnqueuedZero
    /\ ps_pc = "done"
    /\ ps_result = Some(<< >>)
    /\ Len(sc_fetches) > 0

\* ------------------------------------------------------------------------
\* fetch_with_retry under @retry (src/utils/http.py)
\* ------------------------------------------------------------------------

\* RETRY_CONFIG["max_attempts"]
max_attempts == 5

\* how one attempt of the function body can end: a response, an
\* httpx.HTTPError (from client.get or raise_for_status), an
\* asyncio.TimeoutError, or an exception of another type
AttemptResults == { "response", "httpx.HTTPError", "asyncio.TimeoutError", "other" }

\* retry_if_exception_type((httpx.HTTPError, asyncio.TimeoutError))
is_retried(result) == result \in { "httpx.HTTPError", "asyncio.TimeoutError" }

\* stop_after_attempt(RETRY_CONFIG["max_attempts"])
stop_after_attempt(n) == n >= max_attempts

\* One attempt of the body, lines 92-152, and the decision of the retry
\* decorator, lines 82-91.  The decorator is given no reraise=True: when
\* it stops it raises tenacity.RetryError, chained from the last exception.
FrAttempt ==
    /\ fr_pc = "attempt"
    /\ \E result \in AttemptResults :
         /\ fr_log' = Append(fr_log, result)
         /\ IF result = "response"
            THEN fr_pc' = "done" /\ fr_outcome' = Some([raised |-> FALSE, what |-> "response"])
            ELSE IF ~is_retried(result)
            THEN fr_pc' = "raised" /\ fr_outcome' = Some([raised |-> TRUE, what |-> result])
            ELSE IF stop_after_attempt(attempt_number)
            THEN fr_pc' = "raised" /\ fr_outcome' = Some([raised |-> TRUE, what |-> "tenacity.RetryError"])
            ELSE fr_pc' = "sleep" /\ fr_outcome' = fr_outcome
    /\ UNCHANGED << main_pc, actor_input, http_clients, ps_pc, enqueue_calls, ps_result, attempt_number >>
    /\ UNCHANGED << extract_vars, pg_vars, q_vars, sc_vars, files >>

\* before_sleep_log, wait_random_exponential, then the next attempt
FrSleep ==
    /\ fr_pc = "sleep"
    /\ attempt_number' = attempt_number + 1
    /\ fr_pc' = "attempt"
    /\ UNCHANGED << main_pc, actor_input, http_clients, ps_pc, enqueue_calls, ps_result, fr_log, fr_outcome >>
    /\ UNCHANGED << extract_vars, pg_vars, q_vars, sc_vars, files >>

NextFetch == FrAttempt \/ FrSleep

InitFetch ==
    /\ ExtractIdle
    /\ PaginateIdle
    /\ QueueIdle
    /\ SearchIdle
    /\ files = { }
    /\ main_pc = "idle"
    /\ actor_input = None
    /\ http_clients = 0
    /\ ps_pc = "idle"
    /\ enqueue_calls = 0
    /\ ps_result = None
    /\ fr_pc = "attempt"
    /\ attempt_number = 1
    /\ fr_log = << >>
    /\ fr_outcome = None

SpecFetch == InitFetch /\ [][NextFetch]_vars

\* every attempt made so far failed with httpx.HTTPError or
\* asyncio.TimeoutError
EveryAttemptFailed == \A i \in 1..Len(fr_log) : is_retried(fr_log[i])

\* C26 (as claimed): if the request fails on every attempt with
\* httpx.HTTPError or asyncio.TimeoutError, fetch_with_retry stops after
\* RETRY_CONFIG["max_attempts"] attempts and raises httpx.HTTPError to its
\* caller.
C26_RaisesHTTPError ==
    (fr_pc \in { "done", "raised" } /\ EveryAttemptFailed) =>
        /\ Len(fr_log) = max_attempts
        /\ fr_outcome = Some([raised |-> TRUE, what |-> "httpx.HTTPError"])

\* ------------------------------------------------------------------------
\* Counters of process_product_queue
\* ------------------------------------------------------------------------

\* C27 (as claimed): each request fetched from the queue changes
\* processed_count + failed_count by at most one: once a PRODUCT request
\* has been counted, marking it as handled (failing or not) leaves the sum
\* as it is; and the sum never exceeds enqueued_count.
C27_CountedOnce ==
    [][ /\ (q_pc = "mark" /\ Val(request).label = "PRODUCT") =>
              processed_count' + failed_count' = processed_count + failed_count
        /\ processed_count' + failed_count' <= enqueued_count' ]_vars

\* ------------------------------------------------------------------------
\* The dataset of paginate_search_results
\* ------------------------------------------------------------------------

\* C28 (as claimed): in a run of paginate_search_results no product URL
\* is pushed to the dataset more than once, also when the same link
\* appears on more than one search-result page.
C28_NoUrlPushedTwice ==
    \A i, j \in 1..Len(dataset) : dataset[i].url = dataset[j].url => i = j

\* C29 (as claimed): the list returned by paginate_search_results is
\* exactly the sequence of records it pushed to the dataset during the
\* call, also when a page fetch or a later step fails after some records
\* were pushed.
C29_ReturnsWhatWasPushed ==
    pg_pc = "done" => pg_result = Some(dataset)

\* ------------------------------------------------------------------------
\* The price pair and the DOM old price
\* ------------------------------------------------------------------------

\* what a call gives as far as prices go: the (regular, discounted) pair
\* of its record, or that it returned no record, or that it raised
PricePair(out) ==
    IF out.raised THEN << "raised" >>
    ELSE IF IsNone(out.value) THEN << "none" >>
    ELSE << Val(out.value).regular_price_uah, Val(out.value).discounted_price_uah >>

\* the page with its old-price markup replaced
WithOld(html_, old_) == [html_ EXCEPT !.old = old_]

\* C30: when a structured-data price is present, the (regular_price,
\* discounted_price) pair that extract_product_data returns is the same
\* for every page that differs from this one only in its DOM old price.
C30_OldPriceIgnored ==
    Done /\ IsSome(SdPrice) =>
        \A old_ \in RegularTables :
            PricePair(extract_product_data(WithOld(html, old_), url)) = PricePair(outcome)

C30_Witness ==
    /\ HasRecord
    /\ IsSome(SdPrice)
    /\ IsSome(DomOld)
    /\ IsSome(DomCurrent)
    /\ Val(DomOld) > Val(SdPrice)
    /\ MoreThanOnePercentAbove(Val(DomOld), Val(DomCurrent))
    /\ Record.regular_price_uah = SdPrice
    /\ Record.regular_price_uah # DomOld

====
